---- MODULE Spec2Model ----
(***************************************************************************)
(* Model of the Rivet Tool operator of src/Sticher.py:                     *)
(* OBJECT_OT_rivet_tool.execute and place_rivets_along_edge.               *)
(*                                                                         *)
(* Lengths and the spacing are counted in sixteenths of a length unit, so  *)
(* every length of the model is a value a float holds exactly and scaling  *)
(* by the unit is exact in binary floating point.  Offsets along an edge   *)
(* are exact rationals <<numerator, denominator>>.  The one place where    *)
(* the code turns a float into an integer, int(length * rivets_per_length),*)
(* is computed in binary64 with round-to-nearest, ties to even.             *)
(***************************************************************************)
EXTENDS Integers, Sequences, FiniteSets

VARIABLES target_object, rivet_object, selected_edges,
          spacing, rivet_count, auto_mode,
          pc, calls, passed, objects, result, report

vars == <<target_object, rivet_object, selected_edges,
          spacing, rivet_count, auto_mode,
          pc, calls, passed, objects, result, report>>

inputs == <<target_object, rivet_object, selected_edges,
            spacing, rivet_count, auto_mode>>

\* ---------------------------------------------------------------- bounds
MaxEdges == 2
MaxLen == 2
LongLen == 49
MaxCount == 3
MaxScale == 2

\* spacing property: min=0.0, max=0.222; 3/16 = 0.1875 is the largest
\* sixteenth that the property accepts
MinSpacing == 0
MaxSpacing == 3
\* rivet_count property: min=1
MinCount == 1
\* the binary64 significand: 1 + FracLimbs * LimbBits = 53 bits
LimbBits == 13
FracLimbs == 4

\* Python's None, a record so that it compares with the objects
None == [none |-> TRUE]

\* --------------------------------------------------------------- helpers
Max(a, b) == IF a >= b THEN a ELSE b

RatLE(p, q) == p[1] * q[2] <= q[1] * p[2]

RatLT(p, q) == p[1] * q[2] < q[1] * p[2]

RatEq(p, q) == p[1] * q[2] = q[1] * p[2]

RECURSIVE SumSeq(_)
SumSeq(s) == IF s = <<>> THEN 0 ELSE s[1] + SumSeq(Tail(s))

RECURSIVE Pow2(_)
Pow2(n) == IF n = 0 THEN 1 ELSE 2 * Pow2(n - 1)

\* ------------------------------------------------- binary64 arithmetic
\* A positive float is [m |-> limbs, e |-> k] and stands for
\*   (limbs[1] + limbs[2]/Base + ... + limbs[1+FracLimbs]/Base^FracLimbs) * 2^k
\* with limbs[1] = 1: a significand of 1 + FracLimbs * LimbBits = 53 bits.
\* Zero has no limbs.
Base == Pow2(LimbBits)

FloatZero == [m |-> <<>>, e |-> 0]

\* floor(log2(a / b)) for integers a, b > 0
RECURSIVE ExpUp(_, _, _)
ExpUp(a, b, k) == IF 2 * b <= a THEN ExpUp(a, 2 * b, k + 1) ELSE k

RECURSIVE ExpDown(_, _, _)
ExpDown(a, b, k) == IF a < b THEN ExpDown(2 * a, b, k - 1) ELSE k

Log2Floor(a, b) == IF a >= b THEN ExpUp(a, b, 0) ELSE ExpDown(a, b, 0)

\* the next n limbs of rem / d, for 0 <= rem < d
RECURSIVE DivLimbs(_, _, _)
DivLimbs(rem, d, n) ==
    IF n = 0 THEN <<>>
    ELSE <<(Base * rem) \div d>> \o DivLimbs((Base * rem) % d, d, n - 1)

\* the remainder left after those n limbs
RECURSIVE DivRem(_, _, _)
DivRem(rem, d, n) == IF n = 0 THEN rem ELSE DivRem((Base * rem) % d, d, n - 1)

\* limbs + one unit in the last place; a carry may make limbs[1] = 2
RECURSIVE IncLimbs(_)
IncLimbs(limbs) ==
    LET n == Len(limbs)
    IN  IF n = 1 THEN <<limbs[1] + 1>>
        ELSE IF limbs[n] + 1 < Base THEN [limbs EXCEPT ![n] = @ + 1]
        ELSE IncLimbs(SubSeq(limbs, 1, n - 1)) \o <<0>>

\* the float of significand limbs (limbs[1] = 1) and exponent e, rounded
\* up by one unit in the last place when up holds
RoundFloat(limbs, e, up) ==
    LET inc == IncLimbs(limbs)
    IN  IF ~up THEN [m |-> limbs, e |-> e]
        ELSE IF inc[1] = 2
             THEN [m |-> <<1>> \o [i \in 1..FracLimbs |-> 0], e |-> e + 1]
             ELSE [m |-> inc, e |-> e]

\* a / b for integers a >= 0, b > 0: round-to-nearest, ties to even
FloatDiv(a, b) ==
    IF a = 0 THEN FloatZero
    ELSE LET k  == Log2Floor(a, b)
             an == IF k < 0 THEN a * Pow2(0 - k) ELSE a
             bn == IF k > 0 THEN b * Pow2(k) ELSE b
             limbs == <<1>> \o DivLimbs(an - bn, bn, FracLimbs)
             rem   == DivRem(an - bn, bn, FracLimbs)
             odd   == limbs[Len(limbs)] % 2 = 1
         IN  RoundFloat(limbs, k, 2 * rem > bn \/ (2 * rem = bn /\ odd))

\* limbs * c + carry, exactly; limbs[1] of the result is not reduced
RECURSIVE MulLimbs(_, _, _)
MulLimbs(limbs, c, carry) ==
    LET n == Len(limbs)
        v == limbs[n] * c + carry
    IN  IF n = 1 THEN <<v>>
        ELSE MulLimbs(SubSeq(limbs, 1, n - 1), c, v \div Base) \o <<v % Base>>

\* limbs / 2^s, the bits shifted out of the last limb dropped (s <= LimbBits)
ShiftRight(limbs, s) ==
    [i \in 1..Len(limbs) |->
        IF i = 1 THEN limbs[1] \div Pow2(s)
        ELSE (limbs[i - 1] % Pow2(s)) * Pow2(LimbBits - s) + limbs[i] \div Pow2(s)]

\* f * c for a float f and an integer 0 <= c < Base: round-to-nearest,
\* ties to even
FloatMulInt(f, c) ==
    IF f.m = <<>> \/ c = 0 THEN FloatZero
    ELSE LET prod == MulLimbs(f.m, c, 0)
             s    == Log2Floor(prod[1], 1)
             kept == ShiftRight(prod, s)
             out  == prod[Len(prod)] % Pow2(s)
             odd  == kept[Len(kept)] % 2 = 1
             up   == s > 0 /\ (2 * out > Pow2(s) \/ (2 * out = Pow2(s) /\ odd))
         IN  RoundFloat(kept, f.e + s, up)

\* int(f): truncation of a float 0 <= f < 2 * Base
FloatTrunc(f) ==
    IF f.m = <<>> \/ f.e < 0 THEN 0
    ELSE f.m[1] * Pow2(f.e) + f.m[2] \div Pow2(LimbBits - f.e)

\* ------------------------------------------------------------- the scene
\* BMEdge: its length and whether it borders a face (len(edge.link_faces) > 0)
Lengths == (0..MaxLen) \cup {LongLen}

Edges == [len : Lengths, face : BOOLEAN]

Selections == UNION {[1..n -> Edges] : n \in 0..MaxEdges}

\* Object.scale, one factor per axis
Scales == {<<k, k, k>> : k \in 1..MaxScale}

\* context.object: its type, its mode and the scale of its matrix_world
Targets == [type : {"MESH", "CURVE"}, mode : {"EDIT", "OBJECT"},
            scale : 1..MaxScale]

\* scene.rivet_tool_settings.rivet_object
Templates == [scale : Scales]

\* edge.calc_length() of every selected edge
EdgeLengths(sel) == [j \in 1..Len(sel) |-> sel[j].len]

\* ------------------------------------------------------------- execute
\* the checks of execute, in order; the message reported or "OK"
Validate_NoModeCheck(t, r, sel, auto) ==
    IF t = None \/ r = None
    THEN "Please select a target object and a rivet object."
    ELSE IF t.type # "MESH" THEN "The target object must be a mesh."
    ELSE IF Len(sel) = 0 THEN "No valid edges selected."
    ELSE IF auto /\ SumSeq(EdgeLengths(sel)) = 0
    THEN "Selected edges have no length."
    ELSE "OK"

Validate(t, r, sel, auto) ==
    IF t = None \/ r = None
    THEN "Please select a target object and a rivet object."
    ELSE IF t.type # "MESH" THEN "The target object must be a mesh."
    ELSE IF t.mode # "EDIT"
    THEN "You must be in edit mode with selected edges."
    ELSE IF Len(sel) = 0 THEN "No valid edges selected."
    ELSE IF auto /\ SumSeq(EdgeLengths(sel)) = 0
    THEN "Selected edges have no length."
    ELSE "OK"

\* the count execute passes to place_rivets_along_edge for edge j
EdgeRivetCount_Shared(sel, j, count, auto) ==
    IF auto
    THEN LET total_length == SumSeq(EdgeLengths(sel))
             rivets_per_length == FloatDiv(count, total_length)
         IN  Max(1, FloatTrunc(FloatMulInt(rivets_per_length, sel[j].len)))
    ELSE Max(1, count \div Len(sel))

EdgeRivetCount(sel, j, count, auto) ==
    IF auto
    THEN LET total_length == SumSeq(EdgeLengths(sel))
             rivets_per_length == FloatDiv(count, total_length)
         IN  Max(1, FloatTrunc(FloatMulInt(rivets_per_length, sel[j].len)))
    ELSE count

\* ------------------------------------------- place_rivets_along_edge
ActualSpacing_UserOnly(edge_length, count, s) == <<s, 1>>

\* actual_spacing: min(self.spacing, edge_length / (rivet_count - 1))
ActualSpacing(edge_length, count, s) ==
    LET natural == IF count > 1 THEN <<edge_length, count - 1>> ELSE <<0, 1>>
    IN  IF RatLE(<<s, 1>>, natural) THEN <<s, 1>> ELSE natural

Offset_Constant(i, actual_spacing) == actual_spacing

\* offset = i * actual_spacing
Offset(i, actual_spacing) == <<i * actual_spacing[1], actual_spacing[2]>>

\* the lengths of x_axis, y_axis, z_axis, the columns of rotation_matrix:
\* normalized() leaves a zero vector zero, so an edge of no length has
\* edge_direction, x_axis and y_axis zero; a face normal is a unit vector
\* at a right angle to the edge
FrameLengths(edge) ==
    LET d == IF edge.len > 0 THEN 1 ELSE 0
    IN  <<d, d, 1>>

\* the scale read back from target.matrix_world @ Translation @ rotation
MatrixScale(t, frame) == <<t.scale * frame[1], t.scale * frame[2],
                           t.scale * frame[3]>>

\* one pass of the loop body: rivet_object.copy(), .location, .scale, and
\* the assignment of .matrix_world, which sets location, rotation and
\* scale of the copy from the matrix
NewRivet(r, t, edge, j, i, e) ==
    LET copy == [edge |-> j, index |-> i, offset |-> <<0, 1>>, scale |-> r.scale]
        located == [copy EXCEPT !.offset = Offset(i, e)]
        scaled == [located EXCEPT !.scale = r.scale]
    IN  [scaled EXCEPT !.offset = Offset(i, e),
                       !.scale = MatrixScale(t, FrameLengths(edge))]

\* place_rivets_along_edge on edge j of the selection.  For an edge that
\* borders no face, face_normal is Matrix.Identity(3) and
\* edge_direction.cross(z_axis) raises TypeError before any copy is made.
PlaceRivetsAlongEdge(r, t, edge, j, count, s) ==
    LET n == Max(1, count)
        e == ActualSpacing(edge.len, n, s)
    IN  IF ~edge.face
        THEN [raised |-> TRUE, rivets |-> <<>>]
        ELSE [raised |-> FALSE,
              rivets |-> [k \in 1..n |-> NewRivet(r, t, edge, j, k - 1, e)]]

\* ------------------------------------------------------------ behaviour
Init ==
    /\ target_object \in Targets \cup {None}
    /\ rivet_object \in Templates \cup {None}
    /\ selected_edges \in Selections
    /\ spacing \in MinSpacing..MaxSpacing
    /\ rivet_count \in MinCount..MaxCount
    /\ auto_mode \in BOOLEAN
    /\ pc = "ready"
    /\ calls = 0
    /\ passed = <<>>
    /\ objects = <<>>
    /\ result = "NONE"
    /\ report = "NONE"

\* execute, lines 39-72: a check fails
ExecuteCancelled ==
    /\ pc = "ready"
    /\ Validate(target_object, rivet_object, selected_edges, auto_mode) # "OK"
    /\ report' = Validate(target_object, rivet_object, selected_edges, auto_mode)
    /\ result' = "CANCELLED"
    /\ pc' = "done"
    /\ UNCHANGED <<inputs, calls, passed, objects>>

\* execute, lines 39-75: every check passes
ExecuteBegin ==
    /\ pc = "ready"
    /\ Validate(target_object, rivet_object, selected_edges, auto_mode) = "OK"
    /\ pc' = "loop"
    /\ UNCHANGED <<inputs, calls, passed, objects, result, report>>

\* execute, lines 76-82: one pass of the loop over selected_edges
PlaceEdge ==
    /\ pc = "loop"
    /\ calls < Len(selected_edges)
    /\ LET j == calls + 1
           n == EdgeRivetCount(selected_edges, j, rivet_count, auto_mode)
           placed == PlaceRivetsAlongEdge(rivet_object, target_object,
                                          selected_edges[j], j, n, spacing)
       IN  /\ calls' = j
           /\ passed' = Append(passed, n)
           /\ objects' = objects \o placed.rivets
           /\ IF placed.raised
              THEN pc' = "done" /\ result' = "RAISED"
              ELSE pc' = "loop" /\ result' = result
    /\ UNCHANGED <<inputs, report>>

\* execute, line 84
ExecuteFinished ==
    /\ pc = "loop"
    /\ calls = Len(selected_edges)
    /\ result' = "FINISHED"
    /\ pc' = "done"
    /\ UNCHANGED <<inputs, calls, passed, objects, report>>

Next == ExecuteCancelled \/ ExecuteBegin \/ PlaceEdge \/ ExecuteFinished

Spec == Init /\ [][Next]_vars

\* ------------------------------------------------------------ properties
\* the rivets linked into the collection for edge j of the selection
RivetsOn(j) == SelectSeq(objects, LAMBDA o : o.edge = j)

\* the effective spacing of the specification: min(s, L / (n - 1)) for
\* n > 1, and 0 for a single rivet
EffectiveSpacing(L, n, s) ==
    IF n > 1
    THEN IF s * (n - 1) <= L THEN <<s, 1>> ELSE <<L, n - 1>>
    ELSE <<0, 1>>

\* the request passed every check of execute
Accepted == pc # "ready" /\ result # "CANCELLED"

\* the run of execute has ended
Ended == pc = "done"

\* a second run of execute with the same settings, target and template
\* whose selection is the edge alone: the rivets it places
RunAlone(edge) ==
    IF Validate(target_object, rivet_object, <<edge>>, auto_mode) # "OK"
    THEN <<>>
    ELSE PlaceRivetsAlongEdge(rivet_object, target_object, edge, 1,
             EdgeRivetCount(<<edge>>, 1, rivet_count, auto_mode),
             spacing).rivets

\* two sequences of rivets agree in number and in positions
SamePlacement(a, b) ==
    /\ Len(a) = Len(b)
    /\ \A i \in 1..Len(a) : RatEq(a[i].offset, b[i].offset)

\* C1: on every edge place_rivets_along_edge is called on, with count n, it
\* places exactly n rivets, rivet i at offset i * min(s, L/(n-1)) from the
\* first endpoint; a single rivet sits at the edge start.
C1_Original ==
    \A j \in 1..calls :
        LET n == passed[j]
            e == EffectiveSpacing(selected_edges[j].len, n, spacing)
            placed == RivetsOn(j)
        IN  /\ Len(placed) = n
            /\ \A i \in 1..Len(placed) :
                   RatEq(placed[i].offset, <<(i - 1) * e[1], e[2]>>)
            /\ n = 1 /\ Len(placed) = 1 => placed[1].offset[1] = 0

\* the requests execute is to refuse
C2_InvalidRequest ==
    \/ target_object = None
    \/ rivet_object = None
    \/ target_object.type # "MESH"
    \/ target_object.mode # "EDIT"
    \/ Len(selected_edges) = 0
    \/ auto_mode /\ SumSeq(EdgeLengths(selected_edges)) = 0

\* C2: a request with no target or no template, a target that is not a
\* mesh or not in edit mode, no selected edge, or auto mode with a total
\* selected length of zero, ends CANCELLED with an error reported and no
\* rivet placed.
C2_InvalidIsCancelled ==
    pc # "ready" /\ C2_InvalidRequest =>
        /\ pc = "done"
        /\ result = "CANCELLED"
        /\ report \notin {"NONE", "OK"}
        /\ objects = <<>>

C2_Witness ==
    /\ result = "CANCELLED"
    /\ auto_mode
    /\ Len(selected_edges) = MaxEdges
    /\ report = "Selected edges have no length."

\* C3: no run of execute ends in a failure with rivets already linked into
\* the collection.
C3_Original ==
    Ended /\ result \in {"CANCELLED", "RAISED"} => objects = <<>>

\* C4: once execute has ended on an accepted request, every selected edge
\* has received rivetCount rivets in fixed mode and
\* max(1, floor(length * rivetCount / total_length)) rivets in auto mode.
C4_Original ==
    Ended /\ Accepted =>
        \A j \in 1..Len(selected_edges) :
            Len(RivetsOn(j)) =
                IF auto_mode
                THEN Max(1, (selected_edges[j].len * rivet_count)
                              \div SumSeq(EdgeLengths(selected_edges)))
                ELSE rivet_count

\* C5: in auto mode the per-edge counts of an accepted request sum to a
\* number that is not 0 and differs from rivetCount by less than the number
\* of selected edges.
C5_Original ==
    Accepted /\ auto_mode =>
        LET k == Len(selected_edges)
            total == SumSeq([j \in 1..k |->
                        EdgeRivetCount(selected_edges, j, rivet_count, TRUE)])
        IN  /\ total # 0
            /\ total - rivet_count < k
            /\ rivet_count - total < k

\* C6 as stated: the rivets placed on an edge sit at offsets that are
\* multiples of the edge's effective spacing, and no two of them share an
\* offset.
C6_Original ==
    \A j \in 1..calls :
        LET placed == RivetsOn(j)
            e == EffectiveSpacing(selected_edges[j].len, passed[j], spacing)
        IN  /\ \A i \in 1..Len(placed) : \E k \in 0..(passed[j] - 1) :
                   RatEq(placed[i].offset, <<k * e[1], e[2]>>)
            /\ \A a, b \in 1..Len(placed) :
                   a # b => ~RatEq(placed[a].offset, placed[b].offset)

\* C6 as amended: the offsets are multiples of the effective spacing; they
\* are pairwise distinct when the effective spacing is positive (spacing > 0
\* and edge length > 0), and all 0 when it is 0.
C6_Amended ==
    \A j \in 1..calls :
        LET placed == RivetsOn(j)
            e == EffectiveSpacing(selected_edges[j].len, passed[j], spacing)
        IN  /\ \A i \in 1..Len(placed) : \E k \in 0..(passed[j] - 1) :
                   RatEq(placed[i].offset, <<k * e[1], e[2]>>)
            /\ spacing > 0 /\ selected_edges[j].len > 0 =>
                   \A a, b \in 1..Len(placed) :
                       a # b => ~RatEq(placed[a].offset, placed[b].offset)
            /\ spacing = 0 \/ selected_edges[j].len = 0 =>
                   \A i \in 1..Len(placed) : placed[i].offset[1] = 0

C6_Witness ==
    \E j \in 1..calls :
        /\ Len(RivetsOn(j)) = MaxCount
        /\ spacing > 0
        /\ selected_edges[j].len > 0
        /\ RivetsOn(j)[MaxCount].offset[1] > 0

\* C7: the call of place_rivets_along_edge on an edge that borders no face
\* completes and places all its rivets.
C7_Original ==
    \A j \in 1..calls :
        ~selected_edges[j].face =>
            /\ result # "RAISED"
            /\ Len(RivetsOn(j)) = passed[j]

\* C8: every placed copy has the scale of the rivet template.
C8_Original ==
    \A i \in 1..Len(objects) : objects[i].scale = rivet_object.scale

C10_OffsetOnEdge ==
    \A i \in 1..Len(objects) :
        /\ RatLE(<<0, 1>>, objects[i].offset)
        /\ RatLE(objects[i].offset, <<selected_edges[objects[i].edge].len, 1>>)

C10_Witness ==
    \E i \in 1..Len(objects) :
        /\ objects[i].index > 0
        /\ selected_edges[objects[i].edge].len > 0
        /\ RatLT(<<selected_edges[objects[i].edge].len, objects[i].index>>,
                 <<spacing, 1>>)
        /\ RatEq(objects[i].offset, <<selected_edges[objects[i].edge].len, 1>>)

====
